---- MODULE Spec2Model ----
(***************************************************************************)
(* files2prompt: the command start-up (environment, flags, RunE), Run,     *)
(* processPath (the filepath.Walk callback with its hidden, gitignore,     *)
(* ignore-pattern and extension filters) and processFile, over a small     *)
(* file tree.  Go strings are sequences of one-character strings, so that  *)
(* filepath.Base/Ext/Dir/Rel, strings.TrimSpace/Split/Fields and           *)
(* doublestar.Match are computed character by character.                   *)
(***************************************************************************)
EXTENDS Integers, Sequences, FiniteSets, TLC

(***************************************************************************)
(* Strings                                                                 *)
(***************************************************************************)
SL == <<"/">>
DOT == <<".">>
EMPTY == <<>>

Drop(s, k) == SubSeq(s, k + 1, Len(s))
Take(s, k) == SubSeq(s, 1, k)

HasPrefix(s, p) == Len(p) <= Len(s) /\ Take(s, Len(p)) = p
HasSuffix(s, p) == Len(p) <= Len(s) /\ Drop(s, Len(s) - Len(p)) = p
TrimSuffix(s, p) == IF HasSuffix(s, p) THEN Take(s, Len(s) - Len(p)) ELSE s
TrimPrefix(s, p) == IF HasPrefix(s, p) THEN Drop(s, Len(p)) ELSE s
Contains(s, c) == \E i \in 1..Len(s) : s[i] = c

\* the positions of character c in s
Positions(s, c) == {i \in 1..Len(s) : s[i] = c}
LastPos(s, c) == IF Positions(s, c) = {} THEN 0
                 ELSE CHOOSE i \in Positions(s, c) : \A j \in Positions(s, c) : j <= i
FirstPos(s, c) == IF Positions(s, c) = {} THEN 0
                  ELSE CHOOSE i \in Positions(s, c) : \A j \in Positions(s, c) : i <= j

IsSpace(c) == c \in {" ", "\t", "\n", "\r"}

RECURSIVE TrimLeft(_)
TrimLeft(s) == IF s # <<>> /\ IsSpace(s[1]) THEN TrimLeft(Tail(s)) ELSE s
RECURSIVE TrimRight(_)
TrimRight(s) == IF s # <<>> /\ IsSpace(s[Len(s)]) THEN TrimRight(Take(s, Len(s) - 1)) ELSE s
\* strings.TrimSpace
TrimSpace(s) == TrimRight(TrimLeft(s))

\* strings.Split(s, sep) for a one-character separator: always at least one field
RECURSIVE Split(_, _)
Split(s, c) == IF FirstPos(s, c) = 0 THEN <<s>>
               ELSE <<Take(s, FirstPos(s, c) - 1)>> \o Split(Drop(s, FirstPos(s, c)), c)

\* strings.Fields: the maximal runs of non-space characters
RECURSIVE FieldsAcc(_, _)
FieldsAcc(s, cur) ==
    IF s = <<>> THEN (IF cur = <<>> THEN <<>> ELSE <<cur>>)
    ELSE IF IsSpace(s[1])
         THEN (IF cur = <<>> THEN <<>> ELSE <<cur>>) \o FieldsAcc(Tail(s), <<>>)
         ELSE FieldsAcc(Tail(s), Append(cur, s[1]))
Fields(s) == FieldsAcc(s, <<>>)

RECURSIVE Concat(_)
Concat(ss) == IF ss = <<>> THEN <<>> ELSE Head(ss) \o Concat(Tail(ss))

RECURSIVE JoinWith(_, _)
JoinWith(ss, sep) == IF ss = <<>> THEN <<>>
                     ELSE IF Len(ss) = 1 THEN ss[1]
                     ELSE ss[1] \o sep \o JoinWith(Tail(ss), sep)

SelectSeqNonEmpty(ss) == SelectSeq(ss, LAMBDA x : x # <<>>)

Range(s) == {s[i] : i \in 1..Len(s)}

(***************************************************************************)
(* path/filepath on clean slash-separated paths                            *)
(***************************************************************************)
\* filepath.Base: the last element of the path
Base(path) == IF path = <<>> THEN DOT
              ELSE IF path = SL THEN SL
              ELSE Drop(path, LastPos(path, "/"))

\* filepath.Dir: all but the last element of the path
Dir(path) == IF LastPos(path, "/") = 0 THEN DOT
             ELSE IF LastPos(path, "/") = 1 THEN SL
             ELSE Take(path, LastPos(path, "/") - 1)

\* filepath.Ext: the suffix beginning at the final dot of the final element
Ext(path) == IF LastPos(Base(path), ".") = 0 \/ path = <<>> THEN <<>>
             ELSE Drop(Base(path), LastPos(Base(path), ".") - 1)

\* filepath.Join(dir, name), cleaned
Join(dir, name) == IF dir = DOT \/ dir = <<>> THEN name
                   ELSE IF dir = SL THEN SL \o name
                   ELSE dir \o SL \o name

\* filepath.Rel(base, target) for a target at or below base
Rel(base, target) == IF target = base THEN DOT
                     ELSE IF base = DOT THEN target
                     ELSE Drop(target, Len(base) + 1)

\* target lies strictly below directory d
Below(d, target) == IF d = DOT THEN target # DOT /\ ~HasPrefix(target, SL)
                    ELSE HasPrefix(target, d \o SL)

(***************************************************************************)
(* doublestar.Match(pattern, name) for patterns made of literals, '?',     *)
(* '*', "**" and '/'.  sos is the matcher's startOfSegment flag.           *)
(***************************************************************************)
ZeroLengthPattern(p) ==
    p \in {<<>>, <<"*">>, <<"*", "*">>, <<"/", "*", "*">>, <<"*", "*", "/">>,
           <<"/", "*", "*", "/">>}

\* the length of the leading run of non-separator characters of n
RECURSIVE SegRun(_)
SegRun(n) == IF n = <<>> \/ n[1] = "/" THEN 0 ELSE 1 + SegRun(Tail(n))

RECURSIVE MatchFrom(_, _, _)
MatchFrom(p, n, sos) ==
    IF n = <<>> THEN ZeroLengthPattern(p)
    ELSE IF p = <<>> THEN FALSE
    ELSE IF p[1] = "*" THEN
        IF Len(p) >= 2 /\ p[2] = "*" THEN
            IF sos /\ Len(p) = 2 THEN TRUE
            ELSE IF sos /\ p[3] = "/" THEN
                \* "**/": zero or more whole leading segments of the name
                \/ MatchFrom(Drop(p, 3), n, TRUE)
                \/ \E i \in Positions(n, "/") : MatchFrom(Drop(p, 3), Drop(n, i), TRUE)
            ELSE \E k \in 0..SegRun(n) : MatchFrom(Drop(p, 2), Drop(n, k), FALSE)
        ELSE \E k \in 0..SegRun(n) : MatchFrom(Drop(p, 1), Drop(n, k), FALSE)
    ELSE IF p[1] = "?" THEN n[1] # "/" /\ MatchFrom(Tail(p), Tail(n), FALSE)
    ELSE p[1] = n[1] /\ MatchFrom(Tail(p), Tail(n), p[1] = "/")

Match(pattern, name) == MatchFrom(pattern, name, TRUE)

(***************************************************************************)
(* The file tree the command runs on.  Keys are paths relative to the      *)
(* working directory Cwd; sort.Strings orders names by byte value.         *)
(***************************************************************************)
GITIGNORE == <<".", "g", "i", "t", "i", "g", "n", "o", "r", "e">>
Cwd == <<"/", "w">>

P_p == <<"p">>
P_hid == <<"p", "/", ".", "g">>
P_hidfile == <<"p", "/", ".", "g", "/", "c", ".", "g", "o">>
P_gi == Join(P_p, GITIGNORE)
P_higi == Join(P_hid, GITIGNORE)
P_hgo == <<"p", "/", ".", "h", ".", "g", "o">>
P_ago == <<"p", "/", "a", ".", "g", "o">>
P_blog == <<"p", "/", "b", ".", "l", "o", "g">>
P_s == <<"p", "/", "s">>
P_smgo == <<"p", "/", "s", "/", "m", ".", "g", "o">>
P_t == <<"p", "/", "t">>
P_tfgo == <<"p", "/", "t", "/", "f", ".", "g", "o">>
P_tu == <<"p", "/", "t", "/", "u">>
P_tuggo == <<"p", "/", "t", "/", "u", "/", "g", ".", "g", "o">>
P_qmd == <<"q", ".", "m", "d">>
P_nx == <<"n", "x">>

FsDirs == {DOT, P_p, P_hid, P_s, P_t, P_tu}
FsFiles == {GITIGNORE, P_gi, P_higi, P_hgo, P_hidfile, P_ago, P_blog, P_smgo, P_tfgo, P_tuggo, P_qmd}
FsNodes == FsDirs \cup FsFiles

\* the lines of each .gitignore file of the tree
R_log == <<"*", ".", "l", "o", "g">>
R_tdir == <<"t", "/">>
R_sgo == <<"s", "/", "*", ".", "g", "o">>
R_hidpath == <<"p", "/", ".", "g">>
R_mgo == <<"m", ".", "g", "o">>
NL == <<"\n">>
\* the content of the file at key, for the .gitignore files of the tree
GitignoreContent(key) ==
    IF key = GITIGNORE THEN R_log \o NL
    ELSE IF key = P_gi
         THEN <<"#", " ", "c">> \o NL \o NL \o <<" ">> \o R_tdir \o <<" ">> \o NL \o R_sgo \o NL
    ELSE IF key = P_higi THEN R_hidpath \o NL \o R_mgo \o NL
    ELSE <<>>

\* the key of a path as the program names it: absolute below Cwd, or relative
FsKey(path) == IF path = Cwd THEN DOT
               ELSE IF HasPrefix(path, Cwd \o SL) THEN Drop(path, Len(Cwd) + 1)
               ELSE path

Exists(path) == FsKey(path) \in FsNodes
IsDir(path) == FsKey(path) \in FsDirs

Alphabet == <<"\t", " ", "#", "*", ",", ".", "/", "?", "a", "b", "c", "d", "e", "f", "g",
              "h", "i", "l", "m", "n", "o", "p", "q", "r", "s", "t", "u", "w", "x", "z">>
CharCode(c) == CHOOSE i \in 1..Len(Alphabet) : Alphabet[i] = c

\* a < b in byte order, as sort.Strings compares
RECURSIVE StrLess(_, _)
StrLess(a, b) == IF b = <<>> THEN FALSE
                 ELSE IF a = <<>> THEN TRUE
                 ELSE IF a[1] = b[1] THEN StrLess(Tail(a), Tail(b))
                 ELSE CharCode(a[1]) < CharCode(b[1])

RECURSIVE SortPaths(_)
SortPaths(S) == IF S = {} THEN <<>>
                ELSE LET m == CHOOSE x \in S : \A y \in S \ {x} : StrLess(Base(x), Base(y))
                     IN <<m>> \o SortPaths(S \ {m})

\* the entries of a directory, last name first
DirEntriesReversed(dir) ==
    LET names == {Base(k) : k \in {k \in FsNodes \ {DOT} : Dir(k) = FsKey(dir)}}
        sorted == SortPaths({Join(dir, nm) : nm \in names})
    IN [i \in 1..Len(sorted) |-> sorted[Len(sorted) + 1 - i]]

\* the entries of directory dir in the order filepath.Walk visits them
DirEntries(dir) ==
    LET names == {Base(k) : k \in {k \in FsNodes \ {DOT} : Dir(k) = FsKey(dir)}}
    IN SortPaths({Join(dir, nm) : nm \in names})

(***************************************************************************)
(* State                                                                   *)
(***************************************************************************)
VARIABLES
    pc,             \* where the command is: "cli", "run", "roots", "walk", "done", "exit1", "fatal"
    cli,            \* the start-up inputs: environment, flags, arguments, stdin
    registered,     \* the flags init() registered on rootCmd
    cmdErr,         \* the error rootCmd.Execute returned, "" when none
    conf,           \* config.Config
    created,        \* os.Create(config.OutputFile) has created or truncated the file
    writes,         \* the Write calls made on the sink, in order, each with the writer's verdict
    globalIndex,    \* Run's globalIndex
    gitignoreRules, \* Run's gitignoreRules
    rootIdx,        \* position in config.Paths of the root being processed
    walkRoot,       \* processPath's path (after the "." resolution)
    walkRules,      \* processPath's gitignoreRules parameter, appended to by the callback
    todo,           \* the entries filepath.Walk has still to visit, next first
    calls,          \* the processFile calls made, in order
    skips,          \* the entries a filter skipped, in order
    errs,           \* the errors Run logged for a root
    unreadable,     \* the files os.ReadFile fails on
    failAt,         \* the ordinal of the Write call the writer fails on, 0 for none
    content,        \* what os.ReadFile returns for a file processFile can read
    ignArgs,        \* the arguments of a call of shouldIgnore: path and rules
    ignored         \* what that call returned

vars == <<pc, cli, registered, cmdErr, conf, created, writes, globalIndex, gitignoreRules,
          rootIdx, walkRoot, walkRules, todo, calls, skips, errs, unreadable, failAt,
          content, ignArgs, ignored>>

runVars == <<created, writes, globalIndex, gitignoreRules, rootIdx, walkRoot, walkRules,
             todo, calls, skips, errs>>

(***************************************************************************)
(* internal/files2prompt                                                   *)
(***************************************************************************)
\* readGitignore: the trimmed lines of path/.gitignore that are neither blank nor comments
readGitignore(path) ==
    LET key == FsKey(Join(path, GITIGNORE))
        trimmed == [i \in 1..Len(Split(GitignoreContent(key), "\n")) |->
                        TrimSpace(Split(GitignoreContent(key), "\n")[i])]
    IN IF key \notin FsFiles THEN <<>>
       ELSE SelectSeq(trimmed, LAMBDA line : line # <<>> /\ ~HasPrefix(line, <<"#">>))

\* one iteration of shouldIgnore's loop: rule matches path
RuleMatches(rule, path) ==
    LET base == Base(path)
        parts == Split(path, "/")
    IN \/ Match(rule, base)
       \/ Match(rule, path)
       \/ /\ HasSuffix(rule, SL)
          /\ \/ Match(TrimSuffix(rule, SL), base)
             \/ Match(TrimSuffix(rule, SL) \o <<"/", "*", "*">>, path)
       \/ /\ ~HasSuffix(rule, SL)
          /\ Contains(path, "/")
          /\ \/ Match(rule \o SL, path \o SL)
             \/ /\ Len(parts) > 1
                /\ Match(rule, JoinWith(Take(parts, Len(parts) - 1), SL))

\* shouldIgnore's loop from rule i on: true at the first rule that matches
RECURSIVE ShouldIgnoreFrom(_, _, _)
ShouldIgnoreFrom(path, rules, i) ==
    IF i > Len(rules) THEN FALSE
    ELSE IF RuleMatches(rules[i], path) THEN TRUE
    ELSE ShouldIgnoreFrom(path, rules, i + 1)

\* a loop in which only the last rule decides
shouldIgnoreLastRule(path, rules) == rules # <<>> /\ RuleMatches(rules[Len(rules)], path)

shouldIgnore(path, rules) == ShouldIgnoreFrom(path, rules, 1)

\* the rule shouldIgnore returns true on
IgnoringRule(path, rules) ==
    rules[CHOOSE i \in 1..Len(rules) :
            /\ RuleMatches(rules[i], path)
            /\ \A j \in 1..(i - 1) : ~RuleMatches(rules[j], path)]

\* the hidden test applied to files only
HiddenSkippedFilesOnly(cfg, filePath) ==
    ~cfg.IncludeHidden /\ HasPrefix(Base(filePath), DOT) /\ ~IsDir(filePath)

\* the callback's hidden test
HiddenSkipped(cfg, filePath) == ~cfg.IncludeHidden /\ HasPrefix(Base(filePath), DOT)

\* the branch taken when the option is off, as the option's help text reads
GitignoreEnabledInverted(cfg) == ~cfg.IgnoreGitignore

\* the callback's condition for taking the gitignore branch
GitignoreEnabled(cfg) == cfg.IgnoreGitignore

\* the path the callback hands to shouldIgnore
GitignoreSubject(root, filePath) == filePath

\* sub-patterns split on ',' and used as they stand, untrimmed
SubPatternsUntrimmed(patterns) ==
    SelectSeqNonEmpty(Concat([i \in 1..Len(patterns) |-> Split(patterns[i], ",")]))

\* the sub-patterns of config.IgnorePatterns: split on ',', trimmed, empty ones dropped
SubPatterns(patterns) ==
    LET split == Concat([i \in 1..Len(patterns) |-> Split(patterns[i], ",")])
    IN SelectSeqNonEmpty([i \in 1..Len(split) |-> TrimSpace(split[i])])

\* the body of the callback's sub-pattern loop: the entry is skipped on subPattern
PatternHit(subPattern, root, filePath) ==
    \/ Match(subPattern, Base(filePath))
    \/ Match(subPattern, Rel(root, filePath))
    \/ /\ HasSuffix(subPattern, SL)
       /\ IsDir(filePath)
       /\ Match(TrimSuffix(subPattern, SL), Base(filePath))

PatternSkipped(cfg, root, filePath) ==
    \E i \in 1..Len(SubPatterns(cfg.IgnorePatterns)) :
        PatternHit(SubPatterns(cfg.IgnorePatterns)[i], root, filePath)

SkippingPattern(cfg, root, filePath) ==
    LET subs == SubPatterns(cfg.IgnorePatterns)
    IN subs[CHOOSE i \in 1..Len(subs) :
                /\ PatternHit(subs[i], root, filePath)
                /\ \A j \in 1..(i - 1) : ~PatternHit(subs[j], root, filePath)]

\* the extension test with its outcome inverted
ExtensionAllowedInverted(extensions, filePath) ==
    Len(extensions) = 0 \/ ~\E i \in 1..Len(extensions) : Ext(filePath) = extensions[i]

\* the callback's extension filter lets the file through
ExtensionAllowed(extensions, filePath) ==
    Len(extensions) = 0 \/ \E i \in 1..Len(extensions) : Ext(filePath) = extensions[i]

\* the rules the callback tests an entry against: a directory's own .gitignore is appended first
RulesAt(rules, filePath) ==
    IF IsDir(filePath) THEN rules \o readGitignore(filePath) ELSE rules

\* a callback that tests a directory before it appends the directory's .gitignore
RulesTestedBeforeAppend(rules, filePath) == rules

\* the list the callback hands to shouldIgnore: the append comes first
RulesTested(rules, filePath) == RulesAt(rules, filePath)

\* a callback that tests a directory against its own .gitignore and then lets go of the rules
RulesAfterDropped(cfg, rules, filePath) == rules

\* the callback's list once it has returned: a directory's own .gitignore was
\* appended unless the hidden filter returned first or the gitignore branch is off
RulesAfter(cfg, rules, filePath) ==
    IF ~HiddenSkipped(cfg, filePath) /\ GitignoreEnabled(cfg)
    THEN RulesAt(rules, filePath) ELSE rules

\* a callback that tests the ignore patterns before the gitignore rules
VerdictPatternsFirst(cfg, root, rules, filePath) ==
    IF HiddenSkipped(cfg, filePath) THEN "hidden"
    ELSE IF PatternSkipped(cfg, root, filePath) THEN "pattern"
    ELSE IF GitignoreEnabled(cfg)
            /\ shouldIgnore(GitignoreSubject(root, filePath), RulesAt(rules, filePath))
         THEN "gitignore"
    ELSE IF ~IsDir(filePath) /\ ~ExtensionAllowed(cfg.Extensions, filePath) THEN "ext"
    ELSE ""

\* the callback's verdict on an entry: the filter that skips it, "" when none does
Verdict(cfg, root, rules, filePath) ==
    IF HiddenSkipped(cfg, filePath) THEN "hidden"
    ELSE IF GitignoreEnabled(cfg)
            /\ shouldIgnore(GitignoreSubject(root, filePath), RulesTested(rules, filePath))
         THEN "gitignore"
    ELSE IF PatternSkipped(cfg, root, filePath) THEN "pattern"
    ELSE IF ~IsDir(filePath) /\ ~ExtensionAllowed(cfg.Extensions, filePath) THEN "ext"
    ELSE ""

SkipRule(cfg, root, rules, filePath, why) ==
    IF why = "gitignore"
    THEN IgnoringRule(GitignoreSubject(root, filePath), RulesTested(rules, filePath))
    ELSE IF why = "pattern" THEN SkippingPattern(cfg, root, filePath)
    ELSE <<>>

\* a callback that returns nil where it should return SkipDir
WalkReturnNil(why, isDir) == "nil"

\* what the callback returns to filepath.Walk for an entry the filter why skipped
\* ("" when none did): SkipDir prunes the directory, nil goes on
WalkReturn(why, isDir) == IF why # "" /\ isDir THEN "SkipDir" ELSE "nil"

(***************************************************************************)
(* processFile's formatting.  BAR stands for the one-glyph separator       *)
(* U+2502 of the line-number format.                                       *)
(***************************************************************************)
DigitChars == <<"0", "1", "2", "3", "4", "5", "6", "7", "8", "9">>

\* fmt.Sprintf("%d", n) for n >= 0
RECURSIVE Digits(_)
Digits(n) == IF n < 10 THEN <<DigitChars[n + 1]>>
             ELSE Digits(n \div 10) \o <<DigitChars[(n % 10) + 1]>>

\* fmt's padding on the left with spaces up to width
PadLeft(s, width) == IF Len(s) >= width THEN s ELSE [i \in 1..(width - Len(s)) |-> " "] \o s

\* fmt.Sprintf("% Nd", n) for n >= 0: the space flag puts a blank where the
\* sign would be, and the result is then padded to the width N
SpaceFlagD(width, n) == PadLeft(<<" ">> \o Digits(n), width)

BAR == <<"|">>

\* fmt.Sprintf(format, i+1, line) with format "% Nd BAR %s\n"
NumberedLine(padding, number, line) ==
    SpaceFlagD(padding, number) \o <<" ">> \o BAR \o <<" ">> \o line \o NL

\* processedContent: the content, or its lines numbered
ProcessedContent(cfg, text) ==
    IF cfg.LineNumbers
    THEN LET lines == Split(text, "\n")
             padding == Len(Digits(Len(lines)))
         IN Concat([i \in 1..Len(lines) |-> NumberedLine(padding, i, lines[i])])
    ELSE text

\* strings.Contains(s, sub)
ContainsStr(s, sub) ==
    \E i \in 0..(Len(s) - Len(sub)) : SubSeq(s, i + 1, i + Len(sub)) = sub

\* BT stands for the backtick character, which a TLA+ string cannot hold
BT == "^"
BackticksOf(n) == [i \in 1..n |-> BT]

\* getBackticks' loop from a fence of n backticks
RECURSIVE GrowBackticks(_, _)
GrowBackticks(text, n) ==
    IF ContainsStr(text, BackticksOf(n)) THEN GrowBackticks(text, n + 1) ELSE BackticksOf(n)

MinFence == 3

\* a fence that is never lengthened
getBackticksFixed(text) == BackticksOf(MinFence)

getBackticks(text) == GrowBackticks(text, MinFence)

\* extToLang[ext], "" for an extension the table does not hold
extToLang(ext) ==
    CASE ext = <<"p", "y">> -> <<"p", "y", "t", "h", "o", "n">>
      [] ext = <<"c">> -> <<"c">>
      [] ext = <<"c", "p", "p">> -> <<"c", "p", "p">>
      [] ext = <<"j", "a", "v", "a">> -> <<"j", "a", "v", "a">>
      [] ext = <<"j", "s">> -> <<"j", "a", "v", "a", "s", "c", "r", "i", "p", "t">>
      [] ext = <<"t", "s">> -> <<"t", "y", "p", "e", "s", "c", "r", "i", "p", "t">>
      [] ext = <<"h", "t", "m", "l">> -> <<"h", "t", "m", "l">>
      [] ext = <<"c", "s", "s">> -> <<"c", "s", "s">>
      [] ext = <<"x", "m", "l">> -> <<"x", "m", "l">>
      [] ext = <<"j", "s", "o", "n">> -> <<"j", "s", "o", "n">>
      [] ext = <<"y", "a", "m", "l">> -> <<"y", "a", "m", "l">>
      [] ext = <<"y", "m", "l">> -> <<"y", "a", "m", "l">>
      [] ext = <<"s", "h">> -> <<"b", "a", "s", "h">>
      [] ext = <<"r", "b">> -> <<"r", "u", "b", "y">>
      [] ext = <<"g", "o">> -> <<"g", "o">>
      [] OTHER -> <<>>

\* a plain form with a newline between the content and the closing delimiter
PlainOutputNewline(filePath, processed) ==
    filePath \o <<"\n", "-", "-", "-", "\n">> \o processed \o NL \o <<"-", "-", "-", "\n", "\n">>

\* "%s\n---\n%s---\n\n"
PlainOutput(filePath, processed) ==
    filePath \o <<"\n", "-", "-", "-", "\n">> \o processed \o <<"-", "-", "-", "\n", "\n">>

\* "%s\n%s%s\n%s%s\n"
MarkdownOutput(filePath, processed) ==
    filePath \o NL \o getBackticks(processed)
        \o extToLang(TrimPrefix(Ext(filePath), DOT)) \o NL
        \o processed \o getBackticks(processed) \o NL

XmlOpen == <<"<", "d", "o", "c", "u", "m", "e", "n", "t", " ", "i", "n", "d", "e", "x", "=", "\"">>
XmlSource == <<"\"", ">", "\n", "<", "s", "o", "u", "r", "c", "e", ">">>
XmlContent == <<"<", "/", "s", "o", "u", "r", "c", "e", ">", "\n", "<", "d", "o", "c", "u", "m", "e", "n", "t", "_", "c", "o", "n", "t", "e", "n", "t", ">", "\n">>
XmlClose == <<"<", "/", "d", "o", "c", "u", "m", "e", "n", "t", "_", "c", "o", "n", "t", "e", "n", "t", ">", "\n", "<", "/", "d", "o", "c", "u", "m", "e", "n", "t", ">", "\n">>

\* "<document index=\"%d\">\n<source>%s</source>\n<document_content>\n%s</document_content>\n</document>\n"
XmlOutput(index, filePath, processed) ==
    XmlOpen \o Digits(index) \o XmlSource \o filePath \o XmlContent \o processed \o XmlClose

DocumentsOpen == <<"<", "d", "o", "c", "u", "m", "e", "n", "t", "s", ">", "\n">>
DocumentsClose == <<"<", "/", "d", "o", "c", "u", "m", "e", "n", "t", "s", ">", "\n">>

\* a switch that tries the XML case first
OutputKindXmlFirst(cfg) == IF cfg.ClaudeXML THEN "doc" ELSE IF cfg.Markdown THEN "md" ELSE "plain"

\* processFile's switch
OutputKind(cfg) == IF cfg.Markdown THEN "md" ELSE IF cfg.ClaudeXML THEN "doc" ELSE "plain"

\* globalIndex := 1
FirstIndex == 1

\* an index that is not advanced
IndexAfterStuck(i) == i

\* *globalIndex++
IndexAfter(i) == i + 1

\* the bytes processFile hands to writer.Write for filePath
FileBytes(cfg, filePath, index) ==
    LET processed == ProcessedContent(cfg, content)
    IN IF OutputKind(cfg) = "md" THEN MarkdownOutput(filePath, processed)
       ELSE IF OutputKind(cfg) = "doc" THEN XmlOutput(index, filePath, processed)
       ELSE PlainOutput(filePath, processed)

\* the writes of processFile(filePath): none when the file cannot be read
FileWrites(cfg, filePath, r, index, ordinal) ==
    IF FsKey(filePath) \in unreadable THEN <<>>
    ELSE << [kind |-> OutputKind(cfg),
             index |-> IF OutputKind(cfg) = "doc" THEN index ELSE 0,
             path |-> filePath, root |-> r, ok |-> ordinal # failAt,
             bytes |-> FileBytes(cfg, filePath, index)] >>

\* the document index after processFile(filePath)
FileIndex(cfg, filePath, index) ==
    IF FsKey(filePath) \notin unreadable /\ OutputKind(cfg) = "doc" THEN IndexAfter(index)
    ELSE index

\* a processFile that returns an error for a file it cannot read
FileErrOnRead(filePath, ordinal) == FsKey(filePath) \in unreadable \/ ordinal = failAt

\* processFile returns the writer's error
FileErr(filePath, ordinal) == FsKey(filePath) \notin unreadable /\ ordinal = failAt

\* the wrapper tied to the XML form actually being emitted
WrapsDocumentsUnlessMarkdown(cfg) == cfg.ClaudeXML /\ ~cfg.Markdown

\* Run writes the prologue and the epilogue
WrapsDocuments(cfg) == cfg.ClaudeXML

Wrapper(kind, ordinal) ==
    [kind |-> kind, index |-> 0, path |-> <<>>, root |-> 0, ok |-> ordinal # failAt,
     bytes |-> IF kind = "open" THEN DocumentsOpen ELSE DocumentsClose]

\* the rules Run loads before the first root: the .gitignore beside each root
InitialRules(cfg) ==
    IF GitignoreEnabled(cfg)
    THEN Concat([i \in 1..Len(cfg.Paths) |-> readGitignore(Dir(cfg.Paths[i]))])
    ELSE <<>>

\* a loop over config.Paths that ends at the first path processPath fails on
AfterRootStop(i, failed) == IF failed THEN Len(conf.Paths) + 1 ELSE i + 1

\* Run's loop over config.Paths: an error of processPath is logged and the
\* loop goes on with the next path
AfterRoot(i, failed) == i + 1

\* a processPath that hands every root to filepath.Walk
DirectFileNever(path) == FALSE

\* processPath's test after os.Stat: a root that is not a directory goes
\* straight to processFile
DirectFile(path) == ~IsDir(path)

\* a walk that goes on with the list the walk before it left behind
WalkStartRulesShared(runRules, lastWalkRules) ==
    IF lastWalkRules = <<>> THEN runRules ELSE lastWalkRules

\* the list a walk starts with: processPath gets Run's slice by value, and what
\* the callback of an earlier call appended is not in it
WalkStartRules(runRules, lastWalkRules) == runRules

\* Run up to its loop over config.Paths
RunStart ==
    /\ pc = "run"
    /\ \/ /\ conf.OutputFile # <<>>
          /\ pc' = "fatal"                     \* os.Create failed: log.Fatalf
          /\ UNCHANGED runVars
       \/ /\ pc' = "roots"
          /\ created' = (conf.OutputFile # <<>>)
          /\ gitignoreRules' = InitialRules(conf)
          /\ writes' = IF WrapsDocuments(conf) THEN <<Wrapper("open", 1)>> ELSE <<>>
          /\ rootIdx' = 1
          /\ globalIndex' = FirstIndex
          /\ UNCHANGED <<walkRoot, walkRules, todo, calls, skips, errs>>
    /\ UNCHANGED <<cli, registered, cmdErr, conf, unreadable, failAt, content, ignArgs, ignored>>

\* processPath up to filepath.Walk: the "." resolution, os.Stat, a root that is a file
ProcessPath ==
    /\ pc = "roots"
    /\ rootIdx <= Len(conf.Paths)
    /\ LET given == conf.Paths[rootIdx] IN
       \/ /\ given = DOT                       \* os.Getwd failed
          /\ errs' = Append(errs, [root |-> rootIdx, why |-> "getwd"])
          /\ rootIdx' = AfterRoot(rootIdx, TRUE)
          /\ UNCHANGED <<pc, writes, globalIndex, walkRoot, walkRules, todo, calls>>
       \/ LET path == IF given = DOT THEN Cwd ELSE given IN
          IF ~Exists(path)
          THEN /\ errs' = Append(errs, [root |-> rootIdx, why |-> "stat"])
               /\ rootIdx' = AfterRoot(rootIdx, TRUE)
               /\ UNCHANGED <<pc, writes, globalIndex, walkRoot, walkRules, todo, calls>>
          ELSE IF DirectFile(path)
          THEN /\ calls' = Append(calls, [path |-> path, root |-> rootIdx, walked |-> FALSE,
                                          rules |-> gitignoreRules])
               /\ writes' = writes \o FileWrites(conf, path, rootIdx, globalIndex, Len(writes) + 1)
               /\ globalIndex' = FileIndex(conf, path, globalIndex)
               /\ errs' = IF FileErr(path, Len(writes) + 1)
                          THEN Append(errs, [root |-> rootIdx, why |-> "write"]) ELSE errs
               /\ rootIdx' = AfterRoot(rootIdx, FileErr(path, Len(writes) + 1))
               /\ UNCHANGED <<pc, walkRoot, walkRules, todo>>
          ELSE /\ pc' = "walk"
               /\ walkRoot' = path
               /\ walkRules' = WalkStartRules(gitignoreRules, walkRules)
               /\ todo' = <<path>>
               /\ UNCHANGED <<writes, globalIndex, calls, errs, rootIdx>>
    /\ UNCHANGED <<cli, registered, cmdErr, conf, created, gitignoreRules, skips,
                   unreadable, failAt, content, ignArgs, ignored>>

\* one call of the Walk callback, on the next entry, and Walk's reaction to what it returns
WalkStep ==
    /\ pc = "walk"
    /\ LET filePath == Head(todo)
           why == Verdict(conf, walkRoot, walkRules, filePath)
           encode == why = "" /\ ~IsDir(filePath)
           failed == encode /\ FileErr(filePath, Len(writes) + 1)
           rest == IF failed THEN <<>>
                   ELSE IF IsDir(filePath) /\ WalkReturn(why, TRUE) = "nil"
                        THEN DirEntries(filePath) \o Tail(todo)
                   ELSE Tail(todo)
       IN /\ walkRules' = RulesAfter(conf, walkRules, filePath)
          /\ skips' = IF why # ""
                      THEN Append(skips, [path |-> filePath, root |-> rootIdx, why |-> why,
                                          rule |-> SkipRule(conf, walkRoot, walkRules, filePath, why),
                                          dir |-> IsDir(filePath)])
                      ELSE skips
          /\ calls' = IF encode
                      THEN Append(calls, [path |-> filePath, root |-> rootIdx, walked |-> TRUE,
                                          rules |-> walkRules])
                      ELSE calls
          /\ writes' = IF encode
                       THEN writes \o FileWrites(conf, filePath, rootIdx, globalIndex, Len(writes) + 1)
                       ELSE writes
          /\ globalIndex' = IF encode THEN FileIndex(conf, filePath, globalIndex) ELSE globalIndex
          /\ errs' = IF failed THEN Append(errs, [root |-> rootIdx, why |-> "write"]) ELSE errs
          /\ todo' = rest
          /\ IF rest = <<>>
             THEN pc' = "roots" /\ rootIdx' = AfterRoot(rootIdx, failed)
             ELSE UNCHANGED <<pc, rootIdx>>
    /\ UNCHANGED <<cli, registered, cmdErr, conf, created, gitignoreRules, walkRoot,
                   unreadable, failAt, content, ignArgs, ignored>>

\* Run after its loop: the epilogue, return nil
RunEnd ==
    /\ pc = "roots"
    /\ rootIdx > Len(conf.Paths)
    /\ writes' = IF WrapsDocuments(conf) THEN Append(writes, Wrapper("close", Len(writes) + 1))
                 ELSE writes
    /\ pc' = "done"
    /\ UNCHANGED <<cli, registered, cmdErr, conf, created, globalIndex, gitignoreRules,
                   rootIdx, walkRoot, walkRules, todo, calls, skips, errs, unreadable, failAt,
                   content, ignArgs, ignored>>

(***************************************************************************)
(* The configurations and faults the runs are checked over                 *)
(***************************************************************************)
MaxDeviations == 3
MaxFailAt == 3

X_go == <<".", "g", "o">>
X_log == <<".", "l", "o", "g">>
X_md == <<".", "m", "d">>
F_out == <<"o">>

ExtChoices == {<<>>, <<X_go>>, <<X_log, X_md>>}
\* "q.md/" and "q.md/**/"
R_qmdDir == P_qmd \o SL
R_qmdTree == P_qmd \o <<"/", "*", "*", "/">>
R_hidDir == <<".", "g", "/">>
\* one entry "*.log, , s/*.go"; two entries "q.md/" and "t/"; one entry "q.md/**/"; one entry ".g/"
PatChoices == {<<>>, <<R_tdir>>, << R_log \o <<",", " ", ",", " ">> \o R_sgo >>,
               <<R_qmdDir, R_tdir>>, <<R_qmdTree>>, <<R_hidDir>>}
PathChoices == {<<P_p>>, <<P_qmd>>, <<P_p, P_qmd>>, <<P_nx>>, <<P_nx, P_s>>, <<DOT>>,
                <<P_hid, P_qmd>>, <<P_p, P_tu>>, <<P_qmd, P_hgo, P_blog>>}
UnreadableCandidates == {P_ago, P_qmd}

B2N(b) == IF b THEN 1 ELSE 0

\* how many options and faults differ from the plain run
Deviations(cfg, unr, fa) ==
    B2N(cfg.Extensions # <<>>) + B2N(cfg.IncludeHidden) + B2N(cfg.IgnoreGitignore)
    + B2N(cfg.IgnorePatterns # <<>>) + B2N(cfg.OutputFile # <<>>) + B2N(cfg.ClaudeXML)
    + B2N(cfg.LineNumbers) + B2N(cfg.Markdown) + B2N(cfg.Null)
    + Cardinality(unr) + B2N(fa # 0)

RunConfigs ==
    [Paths : PathChoices, Extensions : ExtChoices, IncludeHidden : BOOLEAN,
     IgnoreGitignore : BOOLEAN, IgnorePatterns : PatChoices, OutputFile : {<<>>, F_out},
     ClaudeXML : BOOLEAN, LineNumbers : {FALSE}, Markdown : BOOLEAN, Null : {FALSE}]

NoCli == [osenv |-> <<>>, dotenv |-> <<>>, flags |-> <<>>, args |-> <<>>, stdin |-> <<>>]

RunIdle ==
    /\ created = FALSE
    /\ writes = <<>>
    /\ globalIndex = 0
    /\ gitignoreRules = <<>>
    /\ rootIdx = 0
    /\ walkRoot = <<>>
    /\ walkRules = <<>>
    /\ todo = <<>>
    /\ calls = <<>>
    /\ skips = <<>>
    /\ errs = <<>>

\* the content of the tree's files
TreeContent == <<"x", "\n">>

NoIgnoreCall == ignArgs = [path |-> <<>>, rules |-> <<>>] /\ ignored = FALSE

\* Run is entered with a configuration RunE can pass it
Init ==
    /\ pc = "run"
    /\ cli = NoCli
    /\ registered = {}
    /\ cmdErr = ""
    /\ conf \in RunConfigs
    /\ unreadable \in SUBSET UnreadableCandidates
    /\ failAt \in 0..MaxFailAt
    /\ Deviations(conf, unreadable, failAt) <= MaxDeviations
    /\ content = TreeContent
    /\ NoIgnoreCall
    /\ RunIdle

(***************************************************************************)
(* pkg/config and cmd/files2prompt: the start-up                           *)
(***************************************************************************)
EnvVars == {"PATHS", "EXTENSIONS", "INCLUDE_HIDDEN", "IGNORE_GITIGNORE", "IGNORE_PATTERNS",
            "OUTPUT_FILE", "CLAUDE_XML", "LINE_NUMBERS", "MARKDOWN", "NULL"}
BoolOptions == {"IncludeHidden", "IgnoreGitignore", "ClaudeXML", "LineNumbers", "Markdown", "Null"}
SliceOptions == {"Extensions", "IgnorePatterns"}
FlagOptions == BoolOptions \cup SliceOptions \cup {"OutputFile"}
Options == FlagOptions \cup {"Paths"}

\* the env tag of each Config field
EnvOf(o) ==
    CASE o = "Paths" -> "PATHS"
      [] o = "Extensions" -> "EXTENSIONS"
      [] o = "IncludeHidden" -> "INCLUDE_HIDDEN"
      [] o = "IgnoreGitignore" -> "IGNORE_GITIGNORE"
      [] o = "IgnorePatterns" -> "IGNORE_PATTERNS"
      [] o = "OutputFile" -> "OUTPUT_FILE"
      [] o = "ClaudeXML" -> "CLAUDE_XML"
      [] o = "LineNumbers" -> "LINE_NUMBERS"
      [] o = "Markdown" -> "MARKDOWN"
      [] o = "Null" -> "NULL"

T_true == <<"t", "r", "u", "e">>
T_false == <<"f", "a", "l", "s", "e">>

\* godotenv.Load: a variable of the .env file is set unless the environment has it
DotenvLoad(osenv, dotenv) ==
    [v \in EnvVars |-> IF osenv[v] # <<>> THEN osenv[v] ELSE dotenv[v]]

\* env.Parse of a []string field: the value split on ','; nothing for the empty value
ParseSlice(v) == IF v = <<>> THEN <<>> ELSE Split(v, ",")
\* env.Parse of a bool field (strconv.ParseBool on the valid spellings used here)
ParseBool(v) == v \in {T_true, <<"1">>}

\* config.GetEnvVars
GetEnvVars(osenv, dotenv) ==
    LET e == DotenvLoad(osenv, dotenv)
    IN [Paths |-> ParseSlice(e["PATHS"]),
        Extensions |-> ParseSlice(e["EXTENSIONS"]),
        IncludeHidden |-> ParseBool(e["INCLUDE_HIDDEN"]),
        IgnoreGitignore |-> ParseBool(e["IGNORE_GITIGNORE"]),
        IgnorePatterns |-> ParseSlice(e["IGNORE_PATTERNS"]),
        OutputFile |-> e["OUTPUT_FILE"],
        ClaudeXML |-> ParseBool(e["CLAUDE_XML"]),
        LineNumbers |-> ParseBool(e["LINE_NUMBERS"]),
        Markdown |-> ParseBool(e["MARKDOWN"]),
        Null |-> ParseBool(e["NULL"])]

\* init() registers the flag of option o
FlagRegistered(cfg, o) == IF o \in BoolOptions THEN ~cfg[o] ELSE Len(cfg[o]) = 0

RegisteredFlags(cfg) == {o \in FlagOptions : FlagRegistered(cfg, o)}

\* cobra's flag parsing: each flag given writes the variable it is bound to
ApplyFlags(cfg, flags) ==
    [o \in Options |-> IF o \in DOMAIN flags THEN flags[o] ELSE cfg[o]]

\* readPathsFromStdin
readPathsFromStdin(stdin, useNull) ==
    IF stdin.tty THEN <<>>
    ELSE SelectSeqNonEmpty(IF useNull THEN Split(stdin.content, "NUL")
                           ELSE Fields(stdin.content))

\* RunE's paths
CombinedPaths(args, stdinPaths) == args \o stdinPaths

\* RunE without its check
NoPathsNever(paths) == FALSE

\* RunE refuses to call Run
NoPaths(paths) == Len(paths) = 0

MaxSettings == 2

EnvValues(v) ==
    CASE v = "PATHS" -> {P_qmd \o <<",">> \o P_s}
      [] v = "EXTENSIONS" -> {X_go \o <<",">> \o X_md}
      [] v = "IGNORE_PATTERNS" -> {R_tdir}
      [] v = "OUTPUT_FILE" -> {F_out}
      [] OTHER -> {T_true, T_false}

FlagValues(o) ==
    CASE o = "Extensions" -> {<<X_log>>}
      [] o = "IgnorePatterns" -> {<<R_log>>}
      [] o = "OutputFile" -> {<<"o", "2">>}
      [] OTHER -> BOOLEAN

NoEnv == [v \in EnvVars |-> <<>>]

\* the environments with exactly the variables of S set
RECURSIVE EnvsOver(_)
EnvsOver(S) ==
    IF S = {} THEN {NoEnv}
    ELSE LET v == CHOOSE x \in S : TRUE
         IN {[e EXCEPT ![v] = val] : e \in EnvsOver(S \ {v}), val \in EnvValues(v)}
EnvChoices == UNION {EnvsOver(S) : S \in {S \in SUBSET EnvVars : Cardinality(S) <= MaxSettings}}
DotenvChoices == {NoEnv, [NoEnv EXCEPT !["EXTENSIONS"] = X_md],
                  [NoEnv EXCEPT !["INCLUDE_HIDDEN"] = T_true]}
EnvSize(e) == Cardinality({v \in EnvVars : e[v] # <<>>})

\* the command lines giving exactly the flags of S
RECURSIVE FlagsOver(_)
FlagsOver(S) ==
    IF S = {} THEN {<<>>}
    ELSE LET o == CHOOSE x \in S : TRUE
         IN {(o :> val) @@ f : f \in FlagsOver(S \ {o}), val \in FlagValues(o)}
FlagChoices == UNION {FlagsOver(S) : S \in {S \in SUBSET FlagOptions : Cardinality(S) <= MaxSettings}}

ArgChoices == {<<>>, <<P_qmd>>, <<P_s, P_qmd>>}
Tty == [tty |-> TRUE, content |-> <<>>]
StdinChoices == {Tty,
                 [tty |-> FALSE, content |-> <<>>],
                 [tty |-> FALSE, content |-> P_qmd \o <<" ">> \o P_s \o NL],
                 [tty |-> FALSE, content |-> P_qmd \o <<"NUL">> \o P_s \o <<"NUL">>]}

\* the package is initialised: init() has loaded the environment and registered the flags
InitCli ==
    /\ pc = "cli"
    /\ \E oe \in EnvChoices, de \in DotenvChoices :
        /\ EnvSize(oe) + EnvSize(de) <= MaxSettings
        /\ cli = [osenv |-> oe, dotenv |-> de, flags |-> <<>>, args |-> <<>>, stdin |-> Tty]
        /\ conf = GetEnvVars(oe, de)
        /\ registered = RegisteredFlags(GetEnvVars(oe, de))
    /\ cmdErr = ""
    /\ unreadable = {}
    /\ failAt = 0
    /\ content = TreeContent
    /\ NoIgnoreCall
    /\ RunIdle

\* rootCmd.Execute: cobra parses the flags, then RunE
Execute ==
    /\ pc = "cli"
    /\ \E fl \in FlagChoices, a \in ArgChoices, sin \in StdinChoices :
        LET parsed == ApplyFlags(conf, fl)
            paths == CombinedPaths(a, readPathsFromStdin(sin, parsed.Null))
        IN /\ EnvSize(cli.osenv) + EnvSize(cli.dotenv) + Cardinality(DOMAIN fl) <= MaxSettings
           /\ cli' = [cli EXCEPT !.flags = fl, !.args = a, !.stdin = sin]
           /\ IF ~(DOMAIN fl \subseteq registered)
              THEN /\ cmdErr' = "unknown flag"
                   /\ pc' = "exit1"
                   /\ conf' = conf
              ELSE IF NoPaths(paths)
              THEN /\ cmdErr' = "no paths provided via arguments or stdin"
                   /\ pc' = "exit1"
                   /\ conf' = [parsed EXCEPT !.Paths = paths]
              ELSE /\ cmdErr' = ""
                   /\ pc' = "run"
                   /\ conf' = [parsed EXCEPT !.Paths = paths]
    /\ UNCHANGED <<registered, unreadable, failAt, content, ignArgs, ignored>>
    /\ UNCHANGED runVars

(***************************************************************************)
(* processFile on its own: one call, over file contents and output modes   *)
(***************************************************************************)
MaxContentLen == 4
MaxNewlines == 9
MaxEarlierDocs == 1

ContentAlphabet == {"x", BT, "\n"}

RECURSIVE StringsUpTo(_)
StringsUpTo(n) ==
    IF n = 0 THEN {<<>>}
    ELSE StringsUpTo(n - 1) \cup {Append(t, c) : t \in StringsUpTo(n - 1), c \in ContentAlphabet}

\* short contents of every shape, and contents of up to MaxNewlines + 1 empty lines
ContentChoices ==
    StringsUpTo(MaxContentLen) \cup {[i \in 1..n |-> "\n"] : n \in 0..MaxNewlines}

FileConfigs ==
    [Paths : {<<P_qmd>>, <<P_ago>>}, Extensions : {<<>>}, IncludeHidden : {FALSE},
     IgnoreGitignore : {FALSE}, IgnorePatterns : {<<>>}, OutputFile : {<<>>},
     ClaudeXML : BOOLEAN, LineNumbers : BOOLEAN, Markdown : BOOLEAN, Null : {FALSE}]

\* processFile is about to be called on a file, with at most one fault
InitFile ==
    /\ pc = "file"
    /\ cli = NoCli
    /\ registered = {}
    /\ cmdErr = ""
    /\ conf \in FileConfigs
    /\ content \in ContentChoices
    /\ \E fault \in {"none", "read", "write"} :
          /\ unreadable = IF fault = "read" THEN {conf.Paths[1]} ELSE {}
          /\ failAt = IF fault = "write" THEN 1 ELSE 0
    /\ globalIndex \in FirstIndex..(FirstIndex + MaxEarlierDocs)
    /\ rootIdx = 1
    /\ created = FALSE
    /\ writes = <<>>
    /\ gitignoreRules = <<>>
    /\ walkRoot = <<>>
    /\ walkRules = <<>>
    /\ todo = <<>>
    /\ calls = <<>>
    /\ skips = <<>>
    /\ errs = <<>>
    /\ NoIgnoreCall

\* processFile(filePath, config, writer, &globalIndex)
ProcessFile ==
    /\ pc = "file"
    /\ LET filePath == conf.Paths[rootIdx] IN
       /\ calls' = Append(calls, [path |-> filePath, root |-> rootIdx, walked |-> FALSE,
                                  rules |-> <<>>])
       /\ writes' = writes \o FileWrites(conf, filePath, rootIdx, globalIndex, Len(writes) + 1)
       /\ globalIndex' = FileIndex(conf, filePath, globalIndex)
       /\ errs' = IF FileErr(filePath, Len(writes) + 1)
                  THEN Append(errs, [root |-> rootIdx, why |-> "write"]) ELSE errs
    /\ pc' = "fileDone"
    /\ UNCHANGED <<cli, registered, cmdErr, conf, created, gitignoreRules, rootIdx, walkRoot,
                   walkRules, todo, skips, unreadable, failAt, content, ignArgs, ignored>>

(***************************************************************************)
(* shouldIgnore on its own: one call, over paths and rule lists            *)
(***************************************************************************)
MaxRules == 3

R_t == <<"t">>
R_anygo == <<"*", "*", "/", "*", ".", "g", "o">>
RuleChoices == {R_log, R_tdir, R_sgo, R_t, R_anygo, R_qmdDir}

RECURSIVE RuleListsUpTo(_)
RuleListsUpTo(n) ==
    IF n = 0 THEN {<<>>}
    ELSE RuleListsUpTo(n - 1) \cup {Append(l, r) : l \in RuleListsUpTo(n - 1), r \in RuleChoices}

\* paths as the walk names them, and the same paths relative to the root p
IgnorePathChoices ==
    {P_blog, P_t, P_tfgo, P_tuggo, P_s, P_smgo, P_ago, P_qmd}
        \cup {Rel(P_p, q) : q \in {P_blog, P_t, P_tfgo, P_s, P_smgo}}

InitIgnore ==
    /\ pc = "ignore"
    /\ cli = NoCli
    /\ registered = {}
    /\ cmdErr = ""
    /\ conf \in {c \in FileConfigs : c.Paths = <<P_qmd>> /\ ~c.ClaudeXML /\ ~c.LineNumbers /\ ~c.Markdown}
    /\ unreadable = {}
    /\ failAt = 0
    /\ content = TreeContent
    /\ ignArgs \in [path : IgnorePathChoices, rules : RuleListsUpTo(MaxRules)]
    /\ ignored = FALSE
    /\ RunIdle

\* shouldIgnore(path, gitignoreRules)
ShouldIgnore ==
    /\ pc = "ignore"
    /\ ignored' = shouldIgnore(ignArgs.path, ignArgs.rules)
    /\ pc' = "ignoreDone"
    /\ UNCHANGED <<cli, registered, cmdErr, conf, unreadable, failAt, content, ignArgs>>
    /\ UNCHANGED runVars

Next == RunStart \/ ProcessPath \/ WalkStep \/ RunEnd

Spec == Init /\ [][Next]_vars

\* the start-up, up to Run's loop over the roots
NextCli == Execute \/ RunStart

SpecCli == InitCli /\ [][NextCli]_vars

\* one call of processFile
NextFile == ProcessFile

SpecFile == InitFile /\ [][NextFile]_vars

\* one call of shouldIgnore
NextIgnore == ShouldIgnore

SpecIgnore == InitIgnore /\ [][NextIgnore]_vars

(***************************************************************************)
(* Properties                                                              *)
(***************************************************************************)
\* the path processPath walks for root r
RootPath(r) == IF conf.Paths[r] = DOT THEN Cwd ELSE conf.Paths[r]

DocWrites == SelectSeq(writes, LAMBDA w : w.kind = "doc")
CountKind(kind) == Cardinality({i \in 1..Len(writes) : writes[i].kind = kind})
Started == pc \in {"roots", "walk", "done"}

\* the <document> elements the sink accepted, in write order
AcceptedDocs == SelectSeq(DocWrites, LAMBDA w : w.ok)

\* C1 as claimed: the <document> elements that reached the sink carry the
\* indices 1, 2, ..., N in write order, without a gap, whatever read failures,
\* write failures and failing roots occur.
C1_Original == \A i \in 1..Len(AcceptedDocs) : AcceptedDocs[i].index = i

\* C1 as amended: in Claude-XML mode the <document> elements Run passes to the
\* sink's Write carry the indices 1, 2, ..., N in call order: the counter
\* starts at 1, is not reset between roots and neither skips nor repeats a
\* value, whatever read failures, write failures and failing roots occur; the
\* elements the sink accepted carry strictly increasing indices, and a
\* rejected element keeps the index it was formatted with.
C1_DocumentIndices ==
    /\ \A i \in 1..Len(DocWrites) : DocWrites[i].index = i
    /\ \A i, j \in 1..Len(AcceptedDocs) :
          i < j => AcceptedDocs[i].index < AcceptedDocs[j].index
    /\ Started => globalIndex = FirstIndex + Len(DocWrites)

\* a finished XML run over two roots with a read failure, in which the sink
\* rejected one <document> and accepted a later one of the other root
C1_Witness ==
    /\ pc = "done"
    /\ conf.ClaudeXML
    /\ \E i, j \in 1..Len(DocWrites) :
          /\ i < j
          /\ DocWrites[i].root # DocWrites[j].root
          /\ ~DocWrites[i].ok
          /\ DocWrites[j].ok
    /\ Len(calls) > Len(DocWrites)

\* C2: with ClaudeXML set, the first write of Run is the prologue, made once
\* and before any root is processed, and the last write is the epilogue, made
\* once and after the last root, however many files were encoded and however
\* many roots failed; without ClaudeXML Run writes neither.
C2_Wrapper ==
    /\ (conf.ClaudeXML /\ Started) =>
          (writes # <<>> /\ writes[1].kind = "open" /\ CountKind("open") = 1)
    /\ (conf.ClaudeXML /\ pc = "done") =>
          (writes[Len(writes)].kind = "close" /\ CountKind("close") = 1)
    /\ (pc # "done") => CountKind("close") = 0
    /\ (~conf.ClaudeXML) => (CountKind("open") = 0 /\ CountKind("close") = 0)

\* a finished XML run in which every root failed and no file was encoded
C2_Witness ==
    /\ pc = "done"
    /\ conf.ClaudeXML
    /\ Len(writes) = 2
    /\ Len(errs) = Len(conf.Paths)

\* C3 as claimed: with a non-empty allow-list no file whose extension is not
\* in the list is passed to processFile, for directory roots and file roots.
C3_Original ==
    Len(conf.Extensions) > 0 =>
        \A i \in 1..Len(calls) : Ext(calls[i].path) \in Range(conf.Extensions)

\* C3 as amended: with a non-empty allow-list no file met during the walk of a
\* directory root is passed to processFile unless its extension, leading dot
\* included, equals an entry of the list.
C3_WalkedFilesAllowed ==
    Len(conf.Extensions) > 0 =>
        \A i \in 1..Len(calls) :
            calls[i].walked => Ext(calls[i].path) \in Range(conf.Extensions)

\* a walk that encoded one file and skipped another for its extension
C3_Witness ==
    /\ Len(conf.Extensions) > 0
    /\ \E i \in 1..Len(calls) : calls[i].walked
    /\ \E i \in 1..Len(skips) : skips[i].why = "ext"

\* the names on the way from the walked root (included) down to path
WalkedNames(r, path) ==
    <<Base(RootPath(r))>> \o
        (IF path = RootPath(r) THEN <<>> ELSE Split(Rel(RootPath(r), path), "/"))

\* C4: with IncludeHidden=false no file met during a walk is encoded if its
\* base name, or the base name of a directory on the way from the walked root
\* down to it, starts with '.'; with IncludeHidden=true the hidden filter skips
\* nothing.
C4_Hidden ==
    /\ (~conf.IncludeHidden) =>
          \A i \in 1..Len(calls) :
              calls[i].walked =>
                  \A k \in 1..Len(WalkedNames(calls[i].root, calls[i].path)) :
                      ~HasPrefix(WalkedNames(calls[i].root, calls[i].path)[k], DOT)
    /\ conf.IncludeHidden => \A i \in 1..Len(skips) : skips[i].why # "hidden"

\* a finished walk that skipped a hidden directory and a hidden file and encoded a file
C4_Witness ==
    /\ pc = "done"
    /\ ~conf.IncludeHidden
    /\ \E i, j \in 1..Len(skips) :
          /\ skips[i].why = "hidden" /\ skips[i].dir
          /\ skips[j].why = "hidden" /\ ~skips[j].dir
    /\ \E i \in 1..Len(calls) : calls[i].walked

\* skip s is the prune of a directory by a rule or pattern ending in '/'
SlashPrune(s) == s.dir /\ s.why \in {"gitignore", "pattern"} /\ HasSuffix(s.rule, SL)

\* C5: once a directory is pruned on a gitignore rule or ignore pattern ending
\* in '/', no file below it is passed to processFile during that root's walk,
\* and the prune is no error: the only error logged for the root is a write
\* the sink rejected.
C5_PrunedSubtree ==
    \A i \in 1..Len(skips) :
        SlashPrune(skips[i]) =>
            /\ \A k \in 1..Len(calls) :
                  calls[k].root = skips[i].root => ~Below(skips[i].path, calls[k].path)
            /\ \A k \in 1..Len(errs) :
                  errs[k].root = skips[i].root =>
                      /\ errs[k].why = "write"
                      /\ \E w \in 1..Len(writes) :
                            writes[w].root = errs[k].root /\ ~writes[w].ok

\* a finished run that pruned a directory on a pattern ending in '/' and went
\* on to encode files of the same root
C5_Witness ==
    /\ pc = "done"
    /\ \E i \in 1..Len(skips) :
          /\ SlashPrune(skips[i])
          /\ skips[i].why = "pattern"
          /\ \E k \in 1..Len(calls) : calls[k].root = skips[i].root
          /\ \A k \in 1..Len(errs) : errs[k].root # skips[i].root

\* C6 as claimed: a gitignore rule in effect when an entry is visited is tested
\* against the entry's base name and its path relative to the walked root, so
\* no file is encoded whose root-relative path or base name a rule in effect
\* matches (rule "s/*.go" keeps R/s/m.go out for every root R).
C6_RootRelativeRules ==
    conf.IgnoreGitignore =>
        \A i \in 1..Len(calls) :
            calls[i].walked =>
                \A k \in 1..Len(calls[i].rules) :
                    /\ ~Match(calls[i].rules[k], Base(calls[i].path))
                    /\ ~Match(calls[i].rules[k], Rel(RootPath(calls[i].root), calls[i].path))

\* C7 as claimed: with IgnoreGitignore=true no entry is skipped on a rule read
\* from a .gitignore file.
C7_GitignoreIgnored ==
    conf.IgnoreGitignore => \A i \in 1..Len(skips) : skips[i].why # "gitignore"

\* the environment init() saw, and what the command line adds to it
CliEnv == DotenvLoad(cli.osenv, cli.dotenv)
CliParsed == ApplyFlags(GetEnvVars(cli.osenv, cli.dotenv), cli.flags)
CliPaths == CombinedPaths(cli.args, readPathsFromStdin(cli.stdin, CliParsed.Null))
Executed == pc # "cli"

\* C8 as claimed: an option set in the environment or the .env file is
\* overridden by its flag: the flag is accepted and the configuration holds
\* the flag's value.
C8_FlagOverridesEnv ==
    Executed =>
        \A o \in FlagOptions :
            (CliEnv[EnvOf(o)] # <<>> /\ o \in DOMAIN cli.flags) =>
                (cmdErr # "unknown flag" /\ conf[o] = cli.flags[o])

\* C9 as claimed: with PATHS set and no path given by argument or stdin, Run
\* is entered with Config.Paths equal to the PATHS list.
C9_EnvPathsAreRoots ==
    (/\ Executed
     /\ cmdErr # "unknown flag"
     /\ CliEnv["PATHS"] # <<>>
     /\ cli.args = <<>>
     /\ readPathsFromStdin(cli.stdin, CliParsed.Null) = <<>>) =>
        (pc # "exit1" /\ conf.Paths = ParseSlice(CliEnv["PATHS"]))

\* C10: when the arguments followed by the stdin paths are the empty list the
\* command ends with the error "no paths provided ..." without entering Run:
\* no output file is created or truncated and nothing is written to the sink.
C10_NoPathsNoRun ==
    (Executed /\ CliPaths = <<>>) =>
        /\ pc = "exit1"
        /\ ~created
        /\ writes = <<>>
        /\ (cmdErr # "unknown flag" => cmdErr = "no paths provided via arguments or stdin")

\* the command was refused for want of paths although an output file and the
\* XML wrapper were asked for and stdin was a file without paths
C10_Witness ==
    /\ pc = "exit1"
    /\ cmdErr = "no paths provided via arguments or stdin"
    /\ conf.ClaudeXML
    /\ conf.OutputFile # <<>>
    /\ ~cli.stdin.tty

\* the positions in config.Paths of the roots that left a trace of kind seq
RootsOf(seq) == [i \in 1..Len(seq) |-> seq[i].root]
NonDecreasing(seq) == \A i, j \in 1..Len(seq) : i < j => seq[i] <= seq[j]
FileOutputs == SelectSeq(writes, LAMBDA w : w.root # 0)
RootErrs(r) == {errs[k].why : k \in {k \in 1..Len(errs) : errs[k].root = r}}
RootTouched(r) ==
    \/ \E i \in 1..Len(calls) : calls[i].root = r
    \/ \E i \in 1..Len(skips) : skips[i].root = r
    \/ \E i \in 1..Len(writes) : writes[i].root = r

\* C11: Run takes the roots in the order of config.Paths: the processFile
\* calls, the skips, the logged errors and the output of root i all precede
\* those of root i+1; a root that cannot be resolved or stat'd is logged once
\* and leaves no call and no output; when Run has returned every root has been
\* taken: a missing one is logged, a file root was handed to processFile, a
\* directory root was walked.
C11_RootsInOrder ==
    /\ NonDecreasing(RootsOf(FileOutputs))
    /\ NonDecreasing(RootsOf(calls))
    /\ NonDecreasing(RootsOf(skips))
    /\ NonDecreasing(RootsOf(errs))
    /\ \A r \in 1..Len(conf.Paths) :
          (RootErrs(r) \cap {"getwd", "stat"} # {}) =>
              (~RootTouched(r) /\ Cardinality({k \in 1..Len(errs) : errs[k].root = r}) = 1)
    /\ (pc = "done") =>
          /\ rootIdx = Len(conf.Paths) + 1
          /\ \A r \in 1..Len(conf.Paths) :
                IF ~Exists(RootPath(r)) THEN RootErrs(r) = {"stat"}
                ELSE IF "getwd" \in RootErrs(r) THEN conf.Paths[r] = DOT
                ELSE IF IsDir(RootPath(r)) THEN RootTouched(r)
                ELSE \E i \in 1..Len(calls) :
                        calls[i].root = r /\ calls[i].path = RootPath(r) /\ ~calls[i].walked

\* Run has returned after a root that does not exist was logged and the root
\* after it was walked and encoded
C11_Witness ==
    /\ pc = "done"
    /\ Len(conf.Paths) = 2
    /\ RootErrs(1) = {"stat"}
    /\ \E i \in 1..Len(writes) : writes[i].root = 2 /\ writes[i].ok

\* the callback is about to hand the unreadable file at the head of the walk to processFile
WalkReadFails ==
    /\ pc = "walk"
    /\ ~IsDir(Head(todo))
    /\ Verdict(conf, walkRoot, walkRules, Head(todo)) = ""
    /\ FsKey(Head(todo)) \in unreadable

\* processPath is about to hand a root that is an unreadable file to processFile
RootReadFails ==
    /\ pc = "roots"
    /\ rootIdx <= Len(conf.Paths)
    /\ Exists(RootPath(rootIdx))
    /\ ~IsDir(RootPath(rootIdx))
    /\ FsKey(RootPath(rootIdx)) \in unreadable

\* C12: a step in which processFile is called on a file whose content cannot
\* be read writes nothing to the sink, leaves the document index as it was and
\* logs no error for the root; in a walk the file is dropped from the entries
\* still to visit and the walk goes on with the next one.
C12_ReadFailureSkipsFile ==
    [][ /\ (WalkReadFails \/ RootReadFails) =>
              /\ writes' = writes
              /\ globalIndex' = globalIndex
              /\ errs' = errs
              /\ Len(calls') = Len(calls) + 1
        /\ WalkReadFails =>
              /\ todo' = Tail(todo)
              /\ (Tail(todo) # <<>>) => (pc' = "walk" /\ rootIdx' = rootIdx)
      ]_vars

\* an XML run is over in which a walk met an unreadable file, encoded a later
\* file of the same root with the index the unreadable one did not take
C12_Witness ==
    /\ pc = "done"
    /\ conf.ClaudeXML
    /\ errs = <<>>
    /\ \E i, j \in 1..Len(calls) :
          /\ i < j
          /\ calls[i].walked
          /\ FsKey(calls[i].path) \in unreadable
          /\ calls[j].root = calls[i].root
          /\ \A w \in 1..Len(writes) : writes[w].path # calls[i].path
          /\ \E w \in 1..Len(writes) :
                writes[w].path = calls[j].path /\ writes[w].index = FirstIndex

FileDone == pc = "fileDone"
FilePath == conf.Paths[1]
Readable == FsKey(FilePath) \notin unreadable
PlainMode == ~conf.Markdown /\ ~conf.ClaudeXML

\* C13: in plain mode without line numbers the bytes processFile writes for a
\* file it can read are the path, "\n---\n", the content as read and
\* "---\n\n", in one Write, for every path and content: nothing stands between
\* the last byte of the content and the closing delimiter.
C13_PlainBytes ==
    (FileDone /\ PlainMode /\ ~conf.LineNumbers /\ Readable) =>
        /\ Len(writes) = 1
        /\ writes[1].bytes =
              FilePath \o <<"\n", "-", "-", "-", "\n">> \o content \o <<"-", "-", "-", "\n", "\n">>

\* a plain encoding of a content that does not end in a newline
C13_Witness ==
    /\ FileDone /\ PlainMode /\ ~conf.LineNumbers /\ Readable
    /\ content # <<>>
    /\ content[Len(content)] = "x"
    /\ writes[1].bytes[Len(FilePath) + 5 + Len(content) + 1] = "-"

\* a plain encoding of an empty file
C13_EmptyWitness ==
    /\ FileDone /\ PlainMode /\ ~conf.LineNumbers /\ Readable
    /\ content = <<>>
    /\ Len(writes[1].bytes) = Len(FilePath) + 10

ContentLines == Split(content, "\n")

\* the lines of the content, each behind its number right-aligned in a field of width w
NumberedWithWidth(w) ==
    Concat([i \in 1..Len(ContentLines) |->
              PadLeft(Digits(i), w) \o <<" ">> \o BAR \o <<" ">> \o ContentLines[i] \o NL])

\* C14 as claimed: with line numbering on, every line of the file is written
\* behind its 1-based number right-aligned in a field of one width common to
\* all lines of the file.
C14_CommonWidth ==
    (FileDone /\ PlainMode /\ conf.LineNumbers /\ Readable) =>
        \E w \in 1..(Len(Digits(Len(ContentLines))) + 2) :
            writes[1].bytes =
                FilePath \o <<"\n", "-", "-", "-", "\n">> \o NumberedWithWidth(w)
                    \o <<"-", "-", "-", "\n", "\n">>

\* the same for files of fewer than ten lines, where the code keeps one width
C14_FewLines ==
    (FileDone /\ PlainMode /\ conf.LineNumbers /\ Readable /\ Len(ContentLines) < 10) =>
        writes[1].bytes =
            FilePath \o <<"\n", "-", "-", "-", "\n">> \o NumberedWithWidth(2)
                \o <<"-", "-", "-", "\n", "\n">>

\* the length of the longest run of consecutive backticks in s
LongestRun(s) ==
    CHOOSE n \in 0..Len(s) :
        /\ \E i \in 0..(Len(s) - n) : \A k \in 1..n : s[i + k] = BT
        /\ \A m \in (n + 1)..Len(s) : ~\E i \in 0..(Len(s) - m) : \A k \in 1..m : s[i + k] = BT

Processed == ProcessedContent(conf, content)
FenceLen == IF LongestRun(Processed) + 1 > 3 THEN LongestRun(Processed) + 1 ELSE 3

\* C15: in Markdown mode the fence that opens and closes the block is a run of
\* max(3, longest run of backticks in the processed content + 1) backticks:
\* longer than every run in the content, and 3 when the content has none.
C15_FenceLength ==
    (FileDone /\ conf.Markdown /\ Readable) =>
        /\ Len(getBackticks(Processed)) = FenceLen
        /\ FenceLen > LongestRun(Processed)
        /\ ~ContainsStr(Processed, BackticksOf(FenceLen))
        /\ (~Contains(Processed, BT)) => FenceLen = 3
        /\ writes[1].bytes =
              FilePath \o NL \o BackticksOf(FenceLen) \o extToLang(TrimPrefix(Ext(FilePath), DOT))
                  \o NL \o Processed \o BackticksOf(FenceLen) \o NL

\* a Markdown encoding of a content holding a run of three or more backticks
C15_Witness ==
    /\ FileDone /\ conf.Markdown /\ Readable
    /\ LongestRun(Processed) >= 3
    /\ Len(writes[1].bytes) > 0
    /\ SubSeq(writes[1].bytes, Len(FilePath) + 2, Len(FilePath) + 1 + FenceLen) = BackticksOf(FenceLen)

\* C16: one call of processFile on a readable file makes one Write, of one
\* form: the Markdown form when Markdown is set, also when ClaudeXML is set as
\* well (no <document> element, document index unchanged); the XML form, with
\* the index advanced by one, when only ClaudeXML is set; the plain form, index
\* unchanged, when neither is set.
C16_OneModePerFile ==
    [][ (pc = "file" /\ Readable) =>
          /\ Len(writes') = 1
          /\ IF conf.Markdown
             THEN /\ writes'[1].bytes = MarkdownOutput(FilePath, Processed)
                  /\ ~ContainsStr(writes'[1].bytes, XmlOpen)
                  /\ globalIndex' = globalIndex
             ELSE IF conf.ClaudeXML
             THEN /\ writes'[1].bytes = XmlOutput(globalIndex, FilePath, Processed)
                  /\ HasPrefix(writes'[1].bytes, XmlOpen)
                  /\ globalIndex' = globalIndex + 1
             ELSE /\ writes'[1].bytes = PlainOutput(FilePath, Processed)
                  /\ ~ContainsStr(writes'[1].bytes, XmlOpen)
                  /\ globalIndex' = globalIndex
      ]_vars

\* a file was encoded with both Markdown and ClaudeXML set
C16_Witness ==
    /\ FileDone /\ Readable
    /\ conf.Markdown /\ conf.ClaudeXML
    /\ Len(writes) = 1
    /\ HasPrefix(writes[1].bytes, FilePath \o NL \o BackticksOf(MinFence))

\* the sub-patterns of the configuration that end in '/'
SlashPatterns ==
    {sp \in Range(SubPatterns(conf.IgnorePatterns)) : HasSuffix(sp, SL)}

\* the names of the directories on the way from the walked root (included)
\* down to the entry at path
AncestorNames(r, path) ==
    LET names == WalkedNames(r, path) IN Range(Take(names, Len(names) - 1))

\* no file was encoded below a directory whose base name matches a pattern of S without its slash
DirsPruned(S) ==
    \A i \in 1..Len(calls) :
        calls[i].walked =>
            \A sp \in S : \A nm \in AncestorNames(calls[i].root, calls[i].path) :
                ~Match(TrimSuffix(sp, SL), nm)

C17_PlainSlashPatterns ==
    /\ \A i \in 1..Len(skips) :
          (/\ skips[i].why = "pattern"
           /\ HasSuffix(skips[i].rule, SL)
           /\ ~HasSuffix(skips[i].rule, <<"*", "*", "/">>)) => skips[i].dir
    /\ DirsPruned(SlashPatterns)

\* under the patterns "q.md/" and "t/" the file q.md was encoded and the directory t pruned
C17_PlainWitness ==
    /\ pc = "done"
    /\ R_qmdDir \in SlashPatterns
    /\ \E i \in 1..Len(calls) : calls[i].walked /\ Base(calls[i].path) = P_qmd
    /\ \E i \in 1..Len(skips) : skips[i].why = "pattern" /\ skips[i].dir /\ skips[i].rule = R_tdir

\* the pieces of the configured entries: each entry cut at its commas, every
\* piece trimmed, the empty ones left out
TrimmedPieces(patterns) ==
    UNION {{TrimSpace(piece) : piece \in Range(Split(patterns[i], ","))} : i \in 1..Len(patterns)}
        \ {<<>>}

\* the entries on the way from the walked root (included) down to path (included)
EntriesDownTo(root, path) ==
    {Take(path, k) : k \in {k \in Len(root)..Len(path) : k = Len(path) \/ path[k + 1] = "/"}}

\* the configured entries written as one comma-separated entry
AsOneEntry(patterns) == <<JoinWith(patterns, <<",", " ">>)>>

\* C18: the ignore patterns act as the set of their comma-separated, trimmed,
\* non-empty pieces: no file is encoded while a piece matches the base name or
\* the root-relative path of the file or of a directory above it in the walk,
\* every skip on a pattern is a skip on such a piece, and the entries written
\* one by one or as one comma-separated entry skip the same entries (a
\* comparison over the configuration alone, made where Run is about to start
\* and no fault is to come).
C18_SubPatterns ==
    /\ Range(SubPatterns(conf.IgnorePatterns)) = TrimmedPieces(conf.IgnorePatterns)
    /\ \A i \in 1..Len(calls) :
          calls[i].walked =>
              \A e \in EntriesDownTo(RootPath(calls[i].root), calls[i].path) :
                  \A sp \in TrimmedPieces(conf.IgnorePatterns) :
                      /\ ~Match(sp, Base(e))
                      /\ ~Match(sp, Rel(RootPath(calls[i].root), e))
    /\ \A i \in 1..Len(skips) :
          skips[i].why = "pattern" => skips[i].rule \in TrimmedPieces(conf.IgnorePatterns)
    /\ (pc = "run" /\ failAt = 0 /\ unreadable = {} /\ conf.IgnorePatterns # <<>>) =>
          /\ SubPatterns(AsOneEntry(conf.IgnorePatterns)) = SubPatterns(conf.IgnorePatterns)
          /\ \A r \in 1..Len(conf.Paths) : \A n \in FsNodes :
                PatternSkipped([conf EXCEPT !.IgnorePatterns = AsOneEntry(conf.IgnorePatterns)],
                               RootPath(r), Join(RootPath(r), n))
                    = PatternSkipped(conf, RootPath(r), Join(RootPath(r), n))

\* a walk under the one entry "*.log, , s/*.go" is over: a file was skipped on
\* each of its two pieces and another file was encoded
C18_Witness ==
    /\ pc = "done"
    /\ Len(conf.IgnorePatterns) = 1
    /\ Len(SubPatterns(conf.IgnorePatterns)) = 2
    /\ \E i, j \in 1..Len(skips) :
          /\ skips[i].why = "pattern" /\ skips[i].rule = R_log
          /\ skips[j].why = "pattern" /\ skips[j].rule = R_sgo
    /\ \E i \in 1..Len(calls) : calls[i].walked

\* a comes before b in byte order
RECURSIVE NameBefore(_, _)
NameBefore(a, b) ==
    IF b = <<>> THEN FALSE
    ELSE IF a = <<>> THEN TRUE
    ELSE IF a[1] = b[1] THEN NameBefore(Tail(a), Tail(b))
    ELSE CharCode(a[1]) < CharCode(b[1])

\* the list of names a comes before the list b: at the first place where they
\* differ the name of a comes first
RECURSIVE NamesBefore(_, _)
NamesBefore(a, b) ==
    IF b = <<>> THEN FALSE
    ELSE IF a = <<>> THEN TRUE
    ELSE IF a[1] = b[1] THEN NamesBefore(Tail(a), Tail(b))
    ELSE NameBefore(a[1], b[1])

NamesBelowRoot(c) == Split(Rel(RootPath(c.root), c.path), "/")
ReadableCalls == SelectSeq(calls, LAMBDA c : FsKey(c.path) \notin unreadable)

\* C19: the files of one walk are handed to processFile in depth-first order
\* with the names of each directory in byte order, files and subdirectories
\* alike and a subdirectory's files before its next sibling; no file twice;
\* and the file outputs are written in the order of the calls.  The order is
\* a function of the tree, so equal runs write equal output.
C19_WalkOrder ==
    /\ \A i, j \in 1..Len(calls) :
          (i < j /\ calls[i].root = calls[j].root /\ calls[i].walked /\ calls[j].walked) =>
              NamesBefore(NamesBelowRoot(calls[i]), NamesBelowRoot(calls[j]))
    /\ Len(FileOutputs) = Len(ReadableCalls)
    /\ \A i \in 1..Len(FileOutputs) :
          FileOutputs[i].path = ReadableCalls[i].path /\ FileOutputs[i].root = ReadableCalls[i].root

\* a walk of p with hidden entries included is over: a hidden directory's file
\* came before the files of p, these before the file of s, and in t the file
\* before the file of the subdirectory u
C19_Witness ==
    /\ pc = "done"
    /\ \E i, j, k, l, m \in 1..Len(calls) :
          /\ i < j /\ j < k /\ k < l /\ l < m
          /\ calls[i].path = P_hidfile
          /\ calls[j].path = P_ago
          /\ calls[k].path = P_smgo
          /\ calls[l].path = P_tfgo
          /\ calls[m].path = P_tuggo

IgnoreDone == pc = "ignoreDone"

\* the rule lists that hold the rules of l in another order
Reorderings(l) ==
    {[i \in 1..Len(l) |-> l[f[i]]] :
        f \in {g \in [1..Len(l) -> 1..Len(l)] : \A a, b \in 1..Len(l) : g[a] = g[b] => a = b}}

\* C20: shouldIgnore(path, rules) is true exactly when some rule of the list,
\* taken by itself, matches the path, and so whenever a rule matches the base
\* name or the path as a pattern: false for the empty list, the same for
\* every order of the rules and when rules are repeated, and still true when a
\* rule is added at either end of a list that ignores the path.
C20_RuleDisjunction ==
    IgnoreDone =>
        /\ ignored = (\E r \in Range(ignArgs.rules) : shouldIgnore(ignArgs.path, <<r>>))
        /\ (ignArgs.rules = <<>>) => ~ignored
        /\ \A r \in Range(ignArgs.rules) :
              (Match(r, Base(ignArgs.path)) \/ Match(r, ignArgs.path)) => ignored
        /\ \A l \in Reorderings(ignArgs.rules) : shouldIgnore(ignArgs.path, l) = ignored
        /\ shouldIgnore(ignArgs.path, ignArgs.rules \o ignArgs.rules) = ignored
        /\ ignored => \A r \in RuleChoices :
                          /\ shouldIgnore(ignArgs.path, Append(ignArgs.rules, r))
                          /\ shouldIgnore(ignArgs.path, <<r>> \o ignArgs.rules)

\* a call returned true on a list of three rules of which only the first matches the path
C20_Witness ==
    /\ IgnoreDone
    /\ ignored
    /\ Len(ignArgs.rules) = 3
    /\ shouldIgnore(ignArgs.path, <<ignArgs.rules[1]>>)
    /\ ~shouldIgnore(ignArgs.path, Tail(ignArgs.rules))

\* Run has returned: calls and skips, which only grow, hold the whole run
Returned == pc = "done"

\* s is the beginning of t
IsPrefix(s, t) == Len(s) <= Len(t) /\ Take(t, Len(s)) = s

WalkedCalls == SelectSeq(calls, LAMBDA c : c.walked)

\* the rules the .gitignore files at or below the root r hold
RulesBelowRoot(r) ==
    UNION {Range(readGitignore(d)) : d \in {d \in FsDirs : d = FsKey(RootPath(r))
                                                           \/ Below(FsKey(RootPath(r)), d)}}

\* C21 as stated: the rules form one list for the whole run, so the rules in
\* effect when a file of one root is encoded are all still in effect when a
\* file of a later root is encoded.
C21_RulesForWholeRun ==
    \A i, j \in 1..Len(WalkedCalls) :
        WalkedCalls[i].root < WalkedCalls[j].root =>
            Range(WalkedCalls[i].rules) \subseteq Range(WalkedCalls[j].rules)

\* C21, amended: the list Run loads before the first root never changes and
\* every walk starts from it; within the walk of one root the list only grows
\* at its end; and the rules a walk has added are those of the .gitignore
\* files at or below its own root, never those an earlier root's walk read.
\* (calls only grows, so the calls are looked at once Run has returned.)
C21_RulesPerRoot ==
    /\ Started => gitignoreRules = InitialRules(conf)
    /\ pc = "walk" => IsPrefix(gitignoreRules, walkRules)
    /\ Returned => \A i \in 1..Len(WalkedCalls) :
          /\ IsPrefix(gitignoreRules, WalkedCalls[i].rules)
          /\ \A k \in (Len(gitignoreRules) + 1)..Len(WalkedCalls[i].rules) :
                WalkedCalls[i].rules[k] \in RulesBelowRoot(WalkedCalls[i].root)
          /\ \A j \in 1..(i - 1) :
                WalkedCalls[j].root = WalkedCalls[i].root =>
                    IsPrefix(WalkedCalls[j].rules, WalkedCalls[i].rules)

\* the walks of the roots p and p/t/u are over: a file of p was encoded under
\* the rule "t/" of p/.gitignore, and the file of p/t/u under Run's list alone
C21_Witness ==
    /\ pc = "done"
    /\ conf.Paths = <<P_p, P_tu>>
    /\ \E i, j \in 1..Len(WalkedCalls) :
          /\ WalkedCalls[i].root = 1
          /\ WalkedCalls[j].root = 2
          /\ R_tdir \in Range(WalkedCalls[i].rules)
          /\ WalkedCalls[j].rules = gitignoreRules
          /\ R_tdir \notin Range(gitignoreRules)

\* the names from the walked root r down to path, none for the root itself
RelNames(r, path) ==
    IF path = RootPath(r) THEN <<>> ELSE Split(Rel(RootPath(r), path), "/")

\* the directories at or below the root r, as the walk of r names them
WalkDirs(r) ==
    {IF conf.Paths[r] # DOT THEN d ELSE IF d = DOT THEN Cwd ELSE Join(Cwd, d) :
        d \in {d \in FsDirs : d = FsKey(RootPath(r)) \/ Below(FsKey(RootPath(r)), d)}}

\* the walk of root r has skipped the entry at path, on the filter why if given
SkippedIn(r, path) == \E k \in 1..Len(skips) : skips[k].root = r /\ skips[k].path = path
HiddenIn(r, path) ==
    \E k \in 1..Len(skips) : skips[k].root = r /\ skips[k].path = path /\ skips[k].why = "hidden"

\* the directories whose .gitignore the walk of root r has read when it tests
\* the entry e: e itself, the directories above e and those that come before
\* e in the walk, but for those the hidden filter skipped and those below a
\* pruned directory
DirsRead(r, e) ==
    {d \in WalkDirs(r) :
        /\ d = e \/ NamesBefore(RelNames(r, d), RelNames(r, e))
        /\ ~HiddenIn(r, d)
        /\ \A a \in WalkDirs(r) : (Below(a, d) /\ a # d) => ~SkippedIn(r, a)}

\* the rules in effect when the walk of root r tests the entry e
RulesInEffect(r, e) ==
    Range(gitignoreRules) \cup UNION {Range(readGitignore(d)) : d \in DirsRead(r, e)}

\* C22: in a walk with gitignore processing on, the rules of a directory's
\* .gitignore are in effect for the directory and for every entry the walk
\* visits after it, inside its subtree or not, and for no entry visited
\* before it: a file is encoded under exactly Run's rules and the rules of
\* the directories read so far, none of which matches it, and an entry is
\* skipped only on a rule of that list.
C22_RulesFromDirOn ==
    (Returned /\ conf.IgnoreGitignore) =>
        /\ \A i \in 1..Len(WalkedCalls) :
              /\ Range(WalkedCalls[i].rules) = RulesInEffect(WalkedCalls[i].root, WalkedCalls[i].path)
              /\ \A rule \in RulesInEffect(WalkedCalls[i].root, WalkedCalls[i].path) :
                    ~RuleMatches(rule, WalkedCalls[i].path)
        /\ \A k \in 1..Len(skips) :
              skips[k].why = "gitignore" => skips[k].rule \in RulesInEffect(skips[k].root, skips[k].path)

\* the walk of "." with hidden entries included is over: ./.gitignore was
\* encoded before p was visited, without the rule "t/" of p/.gitignore, and
\* q.md, a later sibling of p, was tested against "t/" and encoded
C22_Witness ==
    /\ pc = "done"
    /\ conf.IgnoreGitignore
    /\ conf.Paths = <<DOT>>
    /\ \E i, j \in 1..Len(WalkedCalls) :
          /\ i < j
          /\ WalkedCalls[i].path = Join(Cwd, GITIGNORE)
          /\ R_tdir \notin Range(WalkedCalls[i].rules)
          /\ WalkedCalls[j].path = Join(Cwd, P_qmd)
          /\ R_tdir \in Range(WalkedCalls[j].rules)
    /\ \E k \in 1..Len(skips) : skips[k].why = "gitignore" /\ skips[k].rule = R_tdir

\* what each filter, taken by itself, says of the entry e met in the walk of root r
HiddenSays(e) == ~conf.IncludeHidden /\ HasPrefix(Base(e), DOT)
GitignoreSays(r, e) ==
    conf.IgnoreGitignore /\ \E rule \in RulesInEffect(r, e) : RuleMatches(rule, e)
PatternSays(r, e) ==
    \E sp \in TrimmedPieces(conf.IgnorePatterns) : PatternHit(sp, RootPath(r), e)
ExtensionSays(e) ==
    ~IsDir(e) /\ conf.Extensions # <<>> /\ Ext(e) \notin Range(conf.Extensions)

\* the first filter, in the order hidden, gitignore, pattern, extension, that skips e
FirstFilter(r, e) ==
    IF HiddenSays(e) THEN "hidden"
    ELSE IF GitignoreSays(r, e) THEN "gitignore"
    ELSE IF PatternSays(r, e) THEN "pattern"
    ELSE IF ExtensionSays(e) THEN "ext"
    ELSE ""

\* the rules only the .gitignore of directory d could have brought into the walk of root r
RulesOnlyFrom(r, d) ==
    Range(readGitignore(d))
        \ (Range(gitignoreRules) \cup UNION {Range(readGitignore(x)) : x \in WalkDirs(r) \ {d}})

\* C23: an entry is skipped by the first filter, in the order hidden,
\* gitignore, ignore pattern, extension, that rejects it, and encoded only
\* when none does; the rules of a .gitignore in a directory the hidden filter
\* skipped are in no list a file is tested against; the rules of a .gitignore
\* in a directory an ignore pattern pruned are in the list of every file
\* visited after it, and none of them matches such a file.
C23_FilterOrder ==
  Returned =>
    /\ \A k \in 1..Len(skips) : skips[k].why = FirstFilter(skips[k].root, skips[k].path)
    /\ \A i \in 1..Len(WalkedCalls) :
          /\ FirstFilter(WalkedCalls[i].root, WalkedCalls[i].path) = ""
          /\ \A k \in 1..Len(skips) :
                (skips[k].root = WalkedCalls[i].root /\ skips[k].dir) =>
                    /\ skips[k].why = "hidden" =>
                          RulesOnlyFrom(skips[k].root, skips[k].path)
                              \cap Range(WalkedCalls[i].rules) = {}
                    /\ (/\ skips[k].why = "pattern"
                        /\ conf.IgnoreGitignore
                        /\ NamesBefore(RelNames(skips[k].root, skips[k].path),
                                       RelNames(WalkedCalls[i].root, WalkedCalls[i].path))) =>
                          \A rule \in Range(readGitignore(skips[k].path)) :
                              /\ rule \in Range(WalkedCalls[i].rules)
                              /\ ~RuleMatches(rule, WalkedCalls[i].path)

\* the walk of "." with hidden entries included, gitignore processing on and
\* the pattern ".g/" is over: p/.g was pruned on the pattern, after the rules
\* of its .gitignore were merged, p/s/m.go was then skipped on the rule "m.go"
\* of that file, and p/a.go was encoded with that rule in its list
C23_Witness ==
    /\ pc = "done"
    /\ \E k, l \in 1..Len(skips) :
          /\ k < l
          /\ skips[k].path = Join(Cwd, P_hid) /\ skips[k].why = "pattern"
          /\ skips[l].path = Join(Cwd, P_smgo) /\ skips[l].why = "gitignore"
          /\ skips[l].rule = R_mgo
    /\ \E i \in 1..Len(WalkedCalls) :
          WalkedCalls[i].path = Join(Cwd, P_ago) /\ R_mgo \in Range(WalkedCalls[i].rules)

\* a walk of p with gitignore processing on is over in which the hidden filter
\* skipped p/.g: no rule of p/.g/.gitignore was merged and p/s/m.go was encoded
C23_HiddenWitness ==
    /\ pc = "done"
    /\ conf.IgnoreGitignore
    /\ \E k \in 1..Len(skips) : skips[k].path = P_hid /\ skips[k].why = "hidden"
    /\ \E i \in 1..Len(WalkedCalls) :
          WalkedCalls[i].path = P_smgo /\ R_mgo \notin Range(WalkedCalls[i].rules)

\* the root r exists and is not a directory
FileRoot(r) == Exists(RootPath(r)) /\ ~IsDir(RootPath(r))

\* Run's loop is past the root r
RootDone(r) == pc = "done" \/ (pc \in {"roots", "walk"} /\ r < rootIdx)

CallsOfRoot(r) == SelectSeq(calls, LAMBDA c : c.root = r)

\* C24: a root that is not a directory is handed to processFile once, under
\* the path as given and without the walk: no filter skips it, whatever its
\* name, the rules and patterns in effect and its extension, and when the
\* file can be read its output is written under that path.
C24_FileRootUnfiltered ==
    \A r \in 1..Len(conf.Paths) :
        (FileRoot(r) /\ RootDone(r)) =>
            /\ CallsOfRoot(r) = <<[path |-> conf.Paths[r], root |-> r, walked |-> FALSE,
                                   rules |-> gitignoreRules]>>
            /\ \A k \in 1..Len(skips) : skips[k].root # r
            /\ FsKey(conf.Paths[r]) \notin unreadable =>
                  \E w \in 1..Len(writes) :
                      writes[w].root = r /\ writes[w].path = conf.Paths[r]

\* a run over the file roots q.md, p/.h.go and p/b.log is over, with
\* gitignore processing on, the patterns "*.log" and "s/*.go" and the allowed
\* extension ".go": the hidden file was encoded, and so was b.log, which a
\* gitignore rule, a pattern and the extension filter would each have skipped
C24_Witness ==
    /\ pc = "done"
    /\ Len(calls) = 3
    /\ \E i \in 1..Len(calls) : ~calls[i].walked /\ HiddenSays(calls[i].path)
    /\ \E i \in 1..Len(calls) :
          /\ ~calls[i].walked
          /\ GitignoreSays(calls[i].root, calls[i].path)
          /\ PatternSays(calls[i].root, calls[i].path)
          /\ ExtensionSays(calls[i].path)
          /\ \E w \in 1..Len(writes) : writes[w].path = calls[i].path /\ writes[w].ok

\* the files at or below the root r, as the walk of r names them
WalkFiles(r) ==
    {IF conf.Paths[r] # DOT THEN f ELSE Join(Cwd, f) :
        f \in {f \in FsFiles : Below(FsKey(RootPath(r)), f)}}

\* the files the walk of root r encodes when no rule of any .gitignore is
\* consulted: those that neither the hidden filter nor an ignore pattern
\* rejects, on the file or on a directory from the root down to it, and
\* that the extension filter lets through
EncodedWithoutRules(r) ==
    {f \in WalkFiles(r) :
        /\ \A e \in EntriesDownTo(RootPath(r), f) : ~HiddenSays(e) /\ ~PatternSays(r, e)
        /\ ~ExtensionSays(f)}

EncodedIn(r) == {calls[i].path : i \in {i \in 1..Len(calls) : calls[i].root = r /\ calls[i].walked}}

DirsAbove(r, path) == EntriesDownTo(RootPath(r), path) \ {path}

\* a rule of the .gitignore in directory d matches d itself
OwnRuleMatches(d) == \E rule \in Range(readGitignore(d)) : RuleMatches(rule, d)

\* C26: with gitignore processing on, a directory is tested against a list
\* that already holds the rules of its own .gitignore: no entry is visited,
\* to be encoded or to be skipped, below a directory that one of its own
\* rules matches, and the rules of a directory pruned on a gitignore rule stay
\* in the list, so that every file the walk encodes after it has them in its
\* list and matches none of them.
C26_OwnRulesFirst ==
    (Returned /\ conf.IgnoreGitignore) =>
      /\ \A k \in 1..Len(skips) :
            \A d \in DirsAbove(skips[k].root, skips[k].path) : ~OwnRuleMatches(d)
      /\ \A i \in 1..Len(WalkedCalls) :
            /\ \A d \in DirsAbove(WalkedCalls[i].root, WalkedCalls[i].path) : ~OwnRuleMatches(d)
            /\ \A k \in 1..Len(skips) :
                  (/\ skips[k].root = WalkedCalls[i].root
                   /\ skips[k].dir
                   /\ skips[k].why = "gitignore"
                   /\ NamesBefore(RelNames(skips[k].root, skips[k].path),
                                  RelNames(WalkedCalls[i].root, WalkedCalls[i].path))) =>
                      \A rule \in Range(readGitignore(skips[k].path)) :
                          /\ rule \in Range(WalkedCalls[i].rules)
                          /\ ~RuleMatches(rule, WalkedCalls[i].path)

\* a walk of p with hidden entries included and gitignore processing on is
\* over: p/.g was pruned on the rule "p/.g" that only its own .gitignore
\* holds, p/s/m.go was later skipped on the rule "m.go" of the same file, and
\* p/a.go was encoded with both rules in its list
C26_Witness ==
    /\ pc = "done"
    /\ \E k, l \in 1..Len(skips) :
          /\ k < l
          /\ skips[k].path = P_hid /\ skips[k].dir /\ skips[k].why = "gitignore"
          /\ skips[k].rule \in RulesOnlyFrom(skips[k].root, P_hid)
          /\ skips[l].path = P_smgo /\ skips[l].why = "gitignore"
          /\ skips[l].rule \in RulesOnlyFrom(skips[l].root, P_hid)
    /\ \E i \in 1..Len(WalkedCalls) :
          /\ WalkedCalls[i].path = P_ago
          /\ Range(readGitignore(P_hid)) \subseteq Range(WalkedCalls[i].rules)

\* the path handed to shouldIgnore names a directory, a regular file, of the tree
IgnoreArgIsDir == ignArgs.path \in FsDirs \/ Join(P_p, ignArgs.path) \in FsDirs
IgnoreArgIsFile == ignArgs.path \in FsFiles \/ Join(P_p, ignArgs.path) \in FsFiles

\* the rules of the call that end in '/' and, without the slash, match the path's base name
SlashRulesOnBase ==
    {rule \in Range(ignArgs.rules) :
        HasSuffix(rule, SL) /\ Match(TrimSuffix(rule, SL), Base(ignArgs.path))}

\* the path is ignored by some rule of the call other than those of S
IgnoredApartFrom(S) ==
    \E rule \in Range(ignArgs.rules) \ S : shouldIgnore(ignArgs.path, <<rule>>)

\* C27: a rule ending in '/' is for directories only: shouldIgnore is true of
\* a directory whose base name matches the rule without its slash, and a
\* regular file is never ignored because its own base name matches such a rule.
C27_SlashRulesDirsOnly ==
    IgnoreDone =>
        /\ (IgnoreArgIsDir /\ SlashRulesOnBase # {}) => ignored
        /\ (IgnoreArgIsFile /\ ~IgnoredApartFrom(SlashRulesOnBase)) => ~ignored

\* what holds of the rules ending in '/': a path whose base name matches the
\* rule without its slash is ignored, directory or not
C27_SlashRulesAnyEntry ==
    IgnoreDone => (SlashRulesOnBase # {} => ignored)
====
